---- MODULE Spec2Model ----
(***************************************************************************)
(* A model of Rubolt's foreign-function bridge (python/gimmicks):          *)
(*   ffi_helper.py      MemoryManager (allocate / free / free_all)         *)
(*   py_to_c_bridge.py  PyToCBridge (load_library / get_function /         *)
(*                      call_c_function)                                   *)
(*   op_dispatcher.py   OperationDispatcher (register_* / dispatch /       *)
(*                      has_operation)                                     *)
(*   type_converter.py  TypeConverter (py_to_c / c_to_py / infer_c_type /  *)
(*                      py_to_rubolt)                                      *)
(*   the type-name mappings of py_to_c_bridge.py, ffi_helper.py and        *)
(*   c_wrapper_gen.py                                                      *)
(* Every action is one whole Python method call, exceptions included; only *)
(* the threaded load_library is split at its statements.                   *)
(***************************************************************************)
EXTENDS Integers, Sequences, FiniteSets, TLC

VARIABLES
    allocations,     \* MemoryManager.allocations: list of tracked pointer objects
    next_ptr,        \* the next fresh pointer object malloc hands out
    mlast,           \* what the last MemoryManager call did
    loaded_libs,     \* PyToCBridge.loaded_libs: path string -> CDLL object
    function_cache,  \* PyToCBridge.function_cache: cache key -> function object
    fn_attrs,        \* restype / argtypes attributes of each function object
    created,         \* every CDLL object ctypes.CDLL() has returned so far
    present,         \* library files the loader can currently open
    exported,        \* symbols a loaded library currently resolves
    native_ret,      \* the C string the foreign function returns next
    threads,         \* the load_library call each thread is in the middle of
    c_ops,           \* OperationDispatcher.c_ops: name -> call descriptor
    py_ops,          \* OperationDispatcher.py_ops: name -> host callable
    last             \* what the last bridge / dispatcher call did

memVars == <<allocations, next_ptr, mlast>>
bridgeVars == <<loaded_libs, function_cache, fn_attrs, created>>
envVars == <<present, exported, native_ret>>
regVars == <<c_ops, py_ops>>
otherVars == <<loaded_libs, function_cache, fn_attrs, created, present,
               exported, native_ret, threads, c_ops, py_ops, last>>
vars == <<allocations, next_ptr, mlast, loaded_libs, function_cache, fn_attrs,
          created, present, exported, native_ret, threads, c_ops, py_ops,
          last>>

(***************************************************************************)
(* Bounds of the model.                                                    *)
(***************************************************************************)
MaxPtrs == 4
MaxArgs == 2
MaxThreads == 2
MaxStr == 2

(***************************************************************************)
(* Helpers on finite maps (Python dicts) and lists.                        *)
(***************************************************************************)
EmptyMap == <<>>

Put(m, k, v) == [x \in (DOMAIN m) \cup {k} |-> IF x = k THEN v ELSE m[x]]

Range(s) == {s[i] : i \in DOMAIN s}

\* list.remove(x): drops the first element equal to x
RemoveFirst(s, x) ==
    LET i == CHOOSE j \in DOMAIN s : s[j] = x /\ \A k \in 1..(j - 1) : s[k] # x
    IN  SubSeq(s, 1, i - 1) \o SubSeq(s, i + 1, Len(s))

(***************************************************************************)
(* MemoryManager (ffi_helper.py).  A pointer object is a positive number;  *)
(* `ptr in self.allocations` compares c_void_p objects, which define no    *)
(* __eq__, so membership is object identity.  0 stands for a pointer       *)
(* object the caller built itself.                                         *)
(***************************************************************************)
Pointers == 0..MaxPtrs

MemInit ==
    /\ allocations = <<>>
    /\ next_ptr = 1
    /\ mlast = [op |-> "init", ptr |-> 0, freed |-> <<>>, before |-> <<>>,
                err |-> "none"]

\* allocate(size): malloc, append to the tracking list, return the pointer
Allocate ==
    /\ next_ptr <= MaxPtrs
    /\ allocations' = Append(allocations, next_ptr)
    /\ next_ptr' = next_ptr + 1
    /\ mlast' = [op |-> "allocate", ptr |-> next_ptr, freed |-> <<>>,
                 before |-> allocations, err |-> "none"]
    /\ UNCHANGED otherVars

\* the pointers free(ptr) hands to the native free
FreeForwarded(ptr) == <<ptr>>

\* the exception free(ptr) raises ("none": it returns normally)
FreeError(ptr) == "none"

\* free(ptr): native free first, then untrack the pointer if it is tracked
Free(ptr) ==
    /\ allocations' = IF ptr \in Range(allocations)
                      THEN RemoveFirst(allocations, ptr)
                      ELSE allocations
    /\ mlast' = [op |-> "free", ptr |-> ptr, freed |-> FreeForwarded(ptr),
                 before |-> allocations, err |-> FreeError(ptr)]
    /\ UNCHANGED <<next_ptr, otherVars>>

\* the pointers free_all() hands to the native free, in order
FreeAllForwarded == allocations

\* free_all() without the final clear()
FreeAllRemaining_Kept == allocations

\* the tracking list free_all() leaves
FreeAllRemaining == <<>>

\* free_all(): native free of every tracked pointer, then clear the list
FreeAll ==
    /\ allocations' = FreeAllRemaining
    /\ mlast' = [op |-> "free_all", ptr |-> 0, freed |-> FreeAllForwarded,
                 before |-> allocations, err |-> "none"]
    /\ UNCHANGED <<next_ptr, otherVars>>

(***************************************************************************)
(* PyToCBridge (py_to_c_bridge.py).  A path or a symbol name is a string,  *)
(* written here as the sequence of its pieces, so that concatenation (the  *)
(* cache key) and normalisation are computed, not assumed.                 *)
(***************************************************************************)
Sep == "::"

\* cache_key = f"{lib_path}::{func_name}"
CacheKey(lib_path, func_name) == lib_path \o <<Sep>> \o func_name

\* the file a path names: "." pieces dropped (/lib/./a and /lib/a are one file)
NormPath(p) == SelectSeq(p, LAMBDA x : x # ".")

NoLib == [id |-> 0, path |-> <<>>]
NoFn == [lib |-> 0, sym |-> <<>>]
Unset == <<"unset">>

\* the attributes of a function object ctypes has just created
DefaultAttrs == [restype |-> "c_int", argtypes |-> Unset]

\* the bridge's state as one value
BridgeState == [libs |-> loaded_libs, cache |-> function_cache,
                attrs |-> fn_attrs, created |-> created]

\* what ctypes.CDLL(path) does: a new CDLL object when the file can be opened
NativeLoad(B, pres, lib_path) ==
    IF NormPath(lib_path) \in pres
    THEN [id |-> Cardinality(B.created) + 1, path |-> lib_path]
    ELSE NoLib

\* load_library that never stores what it loaded
LoadStores_Never(lib) == FALSE

\* whether load_library stores the CDLL object it obtained
LoadStores(lib) == lib # NoLib

\* load_library(lib_path): the cached object, else a native load that is
\* cached when it succeeds; OSError is caught and None returned
LoadLibrary(B, pres, lib_path) ==
    IF lib_path \in DOMAIN B.libs
    THEN [B |-> B, lib |-> B.libs[lib_path], loads |-> 0]
    ELSE LET lib == NativeLoad(B, pres, lib_path)
         IN  IF LoadStores(lib)
             THEN [B |-> [B EXCEPT !.libs = Put(@, lib_path, lib),
                                   !.created = @ \cup {lib}],
                   lib |-> lib, loads |-> 1]
             ELSE [B |-> [B EXCEPT !.created = @ \cup ({lib} \ {NoLib})],
                   lib |-> lib, loads |-> 1]

\* get_function that stores the outcome of a failed resolution too
ResolveStores_Always(found) == TRUE

\* whether get_function stores the outcome of getattr(lib, func_name)
ResolveStores(found) == found

\* get_function(lib_path, func_name): the cached function, else load the
\* library and resolve the symbol, caching it when found
GetFunction(B, pres, expo, lib_path, func_name) ==
    LET key == CacheKey(lib_path, func_name)
    IN  IF key \in DOMAIN B.cache
        THEN [B |-> B, fn |-> B.cache[key], loads |-> 0, resolves |-> 0]
        ELSE LET L == LoadLibrary(B, pres, lib_path)
             IN  IF L.lib = NoLib
                 THEN [B |-> L.B, fn |-> NoFn, loads |-> L.loads, resolves |-> 0]
                 ELSE LET found == func_name \in expo
                          fn == IF found
                                THEN [lib |-> L.lib.id, sym |-> func_name]
                                ELSE NoFn
                          B1 == IF found /\ fn \notin DOMAIN L.B.attrs
                                THEN [L.B EXCEPT !.attrs = Put(@, fn, DefaultAttrs)]
                                ELSE L.B
                          B2 == IF ResolveStores(found)
                                THEN [B1 EXCEPT !.cache = Put(@, key, fn)]
                                ELSE B1
                     IN  [B |-> B2, fn |-> fn, loads |-> L.loads, resolves |-> 1]

\* _map_type(type_name): the ctypes type of a type name ("None": no type)
MapType(type_name) ==
    CASE type_name = "void" -> "None"
      [] type_name = "int" -> "c_int"
      [] type_name = "long" -> "c_long"
      [] type_name = "float" -> "c_float"
      [] type_name = "double" -> "c_double"
      [] type_name = "char" -> "c_char"
      [] type_name = "char*" -> "c_char_p"
      [] type_name = "string" -> "c_char_p"
      [] type_name = "void*" -> "c_void_p"
      [] type_name = "ptr" -> "c_void_p"
      [] type_name = "bool" -> "c_bool"
      [] type_name = "int8" -> "c_int8"
      [] type_name = "int16" -> "c_int16"
      [] type_name = "int32" -> "c_int32"
      [] type_name = "int64" -> "c_int64"
      [] type_name = "uint8" -> "c_uint8"
      [] type_name = "uint16" -> "c_uint16"
      [] type_name = "uint32" -> "c_uint32"
      [] type_name = "uint64" -> "c_uint64"
      [] OTHER -> "c_int"

MapTypes(ts) == [i \in DOMAIN ts |-> MapType(ts[i])]

(***************************************************************************)
(* Python argument values, by the kind that decides their conversion:      *)
(* "int", "zero" (the int 0), "float", "str" (text that encodes as UTF-8),  *)
(* "badstr" (text holding a lone surrogate: encode('utf-8') raises),       *)
(* "bytes".                                                                *)
(***************************************************************************)
IsText(v) == v \in {"str", "badstr"}

IsInt(v) == v \in {"int", "zero"}

\* _py_to_c(value, type_hint): "raise" when value.encode('utf-8') raises
PyToC(value, type_hint) ==
    IF type_hint \in {"string", "char*"} /\ IsText(value)
    THEN IF value = "badstr" THEN "raise" ELSE "bytes"
    ELSE value

\* the hint of argument i: arg_types[i] if arg_types else None
\* ("IndexError" when a non-empty arg_types is shorter than i)
HintOf(arg_types, i) ==
    IF arg_types = <<>> THEN "None"
    ELSE IF i > Len(arg_types) THEN "IndexError"
    ELSE arg_types[i]

\* the list comprehension of call_c_function, argument by argument in order:
\* the converted list, or the exception of the first argument that raises
RECURSIVE ConvertFrom(_, _, _, _)
ConvertFrom(args, arg_types, i, done) ==
    IF i > Len(args) THEN [err |-> "none", c_args |-> done]
    ELSE LET hint == HintOf(arg_types, i)
         IN  IF hint = "IndexError"
             THEN [err |-> "IndexError", c_args |-> done]
             ELSE LET c == PyToC(args[i], hint)
                  IN  IF c = "raise"
                      THEN [err |-> "UnicodeEncodeError", c_args |-> done]
                      ELSE ConvertFrom(args, arg_types, i + 1, Append(done, c))

ConvertArgs(args, arg_types) == ConvertFrom(args, arg_types, 1, <<>>)

(***************************************************************************)
(* ctypes, at the foreign call of line 70: every argument is converted     *)
(* (argtypes[i].from_param, or the default conversion where no argtype     *)
(* applies) before the foreign function is entered; a cdecl function takes *)
(* more arguments than argtypes but not fewer.                             *)
(***************************************************************************)
IntTypes == {"c_int", "c_long", "c_int8", "c_int16", "c_int32", "c_int64",
             "c_uint8", "c_uint16", "c_uint32", "c_uint64"}

FromParamOk(ctype, v) ==
    CASE ctype \in IntTypes -> IsInt(v)
      [] ctype \in {"c_float", "c_double"} -> IsInt(v) \/ v = "float"
      [] ctype = "c_char_p" -> v = "bytes"
      [] ctype = "c_void_p" -> IsInt(v) \/ v \in {"bytes", "str", "badstr"}
      [] ctype = "c_bool" -> TRUE
      [] ctype = "c_char" -> IsInt(v)
      [] OTHER -> FALSE

\* the conversion of an argument no argtype covers
DefaultConvOk(v) == IsInt(v) \/ v \in {"bytes", "str", "badstr"}

ArgConvOk(argtypes, c_args, i) ==
    IF argtypes # Unset /\ i <= Len(argtypes)
    THEN FromParamOk(argtypes[i], c_args[i])
    ELSE DefaultConvOk(c_args[i])

\* the exception the foreign call raises before entering the function
ForeignCallError(argtypes, c_args) ==
    IF argtypes # Unset /\ Len(argtypes) > Len(c_args) THEN "TypeError"
    ELSE IF \E i \in DOMAIN c_args : ~ArgConvOk(argtypes, c_args, i)
         THEN "ArgumentError"
         ELSE "none"

(***************************************************************************)
(* Python values.  A value is its exact type t and a payload v, always a   *)
(* sequence of integers: the number of an int, float or bool, the code     *)
(* points of a str, the bytes of a bytes object, the number held by a      *)
(* ctypes object (t is then the ctypes class, "c_int64" for instance).     *)
(***************************************************************************)
NoneValue == [t |-> "NoneType", v |-> <<>>]

\* no value at all: the call raised, or returns nothing the model follows
NoValue == [t |-> "none", v |-> <<>>]

\* an integer handed back by a foreign function; its number is not followed
NativeInt == [t |-> "int", v |-> <<>>]

\* a foreign function that returns the NULL pointer
NullRet == <<-1>>

IsCont(b) == b >= 128 /\ b <= 191

\* bytes.decode('utf-8', errors=errors), one- to three-byte sequences
RECURSIVE Utf8DecodeFrom(_, _, _, _)
Utf8DecodeFrom(bs, i, errors, done) ==
    IF i > Len(bs) THEN [err |-> "none", text |-> done]
    ELSE IF bs[i] < 128
    THEN Utf8DecodeFrom(bs, i + 1, errors, Append(done, bs[i]))
    ELSE IF bs[i] >= 194 /\ bs[i] <= 223 /\ i + 1 <= Len(bs) /\ IsCont(bs[i + 1])
    THEN Utf8DecodeFrom(bs, i + 2, errors,
                        Append(done, (bs[i] - 192) * 64 + (bs[i + 1] - 128)))
    ELSE IF /\ bs[i] >= 224 /\ bs[i] <= 239 /\ i + 2 <= Len(bs)
            /\ IsCont(bs[i + 1]) /\ IsCont(bs[i + 2])
            /\ (bs[i] - 224) * 4096 + (bs[i + 1] - 128) * 64 >= 2048
            /\ (bs[i] - 224) * 4096 + (bs[i + 1] - 128) * 64 \notin 55296..57343
    THEN Utf8DecodeFrom(bs, i + 3, errors,
                        Append(done, (bs[i] - 224) * 4096
                                     + (bs[i + 1] - 128) * 64 + (bs[i + 2] - 128)))
    ELSE IF errors = "replace"
    THEN Utf8DecodeFrom(bs, i + 1, errors, Append(done, 65533))
    ELSE [err |-> "UnicodeDecodeError", text |-> <<>>]

Utf8Decode(bs, errors) == Utf8DecodeFrom(bs, 1, errors, <<>>)

\* str.encode('utf-8'): a lone surrogate cannot be encoded
RECURSIVE Utf8EncodeFrom(_, _, _)
Utf8EncodeFrom(text, i, done) ==
    IF i > Len(text) THEN [err |-> "none", bytes |-> done]
    ELSE IF text[i] < 128 THEN Utf8EncodeFrom(text, i + 1, Append(done, text[i]))
    ELSE IF text[i] < 2048
    THEN Utf8EncodeFrom(text, i + 1,
                        done \o <<192 + (text[i] \div 64), 128 + (text[i] % 64)>>)
    ELSE IF text[i] \in 55296..57343
    THEN [err |-> "UnicodeEncodeError", bytes |-> <<>>]
    ELSE Utf8EncodeFrom(text, i + 1,
                        done \o <<224 + (text[i] \div 4096),
                                  128 + ((text[i] \div 64) % 64),
                                  128 + (text[i] % 64)>>)

Utf8Encode(text) == Utf8EncodeFrom(text, 1, <<>>)

\* the Python value ctypes builds from what the foreign function returned,
\* by the restype in force: a c_char_p result is read as a C string
ReturnValue(restype, ret) ==
    CASE restype = "None" -> NoneValue
      [] restype = "c_char_p" ->
            IF ret = NullRet THEN NoneValue ELSE [t |-> "bytes", v |-> ret]
      [] OTHER -> NativeInt

\* the decoding mode of PyToCBridge._c_to_py: value.decode('utf-8')
BridgeDecodeErrors == "strict"

\* _c_to_py(value, type_hint): bytes under a string hint are decoded
BridgeCToPy(value, type_hint) ==
    IF type_hint \in {"string", "char*"} /\ value.t = "bytes"
    THEN LET d == Utf8Decode(value.v, BridgeDecodeErrors)
         IN  IF d.err # "none" THEN [err |-> d.err, value |-> NoValue]
             ELSE [err |-> "none", value |-> [t |-> "str", v |-> d.text]]
    ELSE [err |-> "none", value |-> value]

\* a call that is issued a second time
InvokeCount_Twice == 1 + 1

\* how many times the foreign function is entered by one func(...) call
\* whose arguments all converted
InvokeCount == 1

\* call_c_function that never sets func.argtypes
InstalledArgtypes_Never(old, arg_types) == old

\* the argtypes of the function object after lines 62-63:
\* if arg_types: func.argtypes = [self._map_type(t) for t in arg_types]
InstalledArgtypes(old, arg_types) ==
    IF arg_types # <<>> THEN MapTypes(arg_types) ELSE old

\* call_c_function(lib_path, func_name, args, return_type, arg_types):
\* get the function, set restype (and argtypes when arg_types is non-empty),
\* convert the arguments, call, convert the result
CallCFunction(B, pres, expo, ret, lib_path, func_name, args, return_type, arg_types) ==
    LET G == GetFunction(B, pres, expo, lib_path, func_name)
        none == [B |-> B, err |-> "none", loads |-> 0, resolves |-> 0,
                 invokes |-> 0, fn |-> NoFn, types |-> Unset, restype |-> "",
                 result |-> "none", out |-> NoValue]
    IN  IF G.fn = NoFn
        THEN [none EXCEPT !.B = G.B, !.err = "RuntimeError",
                          !.loads = G.loads, !.resolves = G.resolves]
        ELSE
        LET got == [none EXCEPT !.loads = G.loads, !.resolves = G.resolves,
                                !.fn = G.fn]
            B1 == [G.B EXCEPT !.attrs[G.fn].restype = MapType(return_type)]
            mapped == MapTypes(arg_types)
        IN  IF arg_types # <<>> /\ "None" \in Range(mapped)
            THEN [got EXCEPT !.B = B1, !.err = "TypeError"]
            ELSE
            LET B2 == [B1 EXCEPT !.attrs[G.fn].argtypes =
                                     InstalledArgtypes(@, arg_types)]
                conv == ConvertArgs(args, arg_types)
                argtypes == B2.attrs[G.fn].argtypes
            IN  IF conv.err # "none"
                THEN [got EXCEPT !.B = B2, !.err = conv.err]
                ELSE LET cerr == ForeignCallError(argtypes, conv.c_args)
                     IN  IF cerr # "none"
                         THEN [got EXCEPT !.B = B2, !.err = cerr]
                         ELSE
                         LET restype == B2.attrs[G.fn].restype
                             called == [got EXCEPT !.B = B2,
                                                   !.invokes = InvokeCount,
                                                   !.types = argtypes,
                                                   !.restype = restype]
                             back == BridgeCToPy(ReturnValue(restype, ret),
                                                 return_type)
                         IN  IF back.err # "none"
                             THEN [called EXCEPT !.err = back.err]
                             ELSE [called EXCEPT !.result = "native",
                                                 !.out = back.value]

\* no call descriptor
NoDesc == [lib |-> <<>>, func |-> <<>>, return_type |-> "", arg_types |-> <<>>]

(***************************************************************************)
(* The bridge's methods as actions.                                        *)
(***************************************************************************)
NoCall == [op |-> "init", name |-> "", hint |-> "", lib_path |-> <<>>,
           func_name |-> <<>>, args |-> <<>>, arg_types |-> <<>>,
           err |-> "none", loads |-> 0, resolves |-> 0, invokes |-> 0,
           host_calls |-> 0, ran |-> "none", desc |-> NoDesc, host |-> "none",
           lib |-> NoLib, fn |-> NoFn, result |-> "none",
           retry |-> FALSE, replaced |-> FALSE, types |-> Unset,
           restype |-> "", value |-> NoValue, c_type |-> "", out |-> NoValue,
           kind |-> ""]

\* whether this call repeats the call before it, which had failed
Retries(op, lib_path, func_name) ==
    /\ last.op = op
    /\ last.lib_path = lib_path
    /\ last.func_name = func_name
    /\ IF op = "load_library" THEN last.lib = NoLib ELSE last.fn = NoFn

SetBridge(B) ==
    /\ loaded_libs' = B.libs
    /\ function_cache' = B.cache
    /\ fn_attrs' = B.attrs
    /\ created' = B.created

BridgeInit ==
    /\ loaded_libs = EmptyMap
    /\ function_cache = EmptyMap
    /\ fn_attrs = EmptyMap
    /\ created = {}

DoLoadLibrary(lib_path) ==
    \E L \in {LoadLibrary(BridgeState, present, lib_path)} :
        /\ SetBridge(L.B)
        /\ last' = [NoCall EXCEPT !.op = "load_library", !.lib_path = lib_path,
                                  !.loads = L.loads, !.lib = L.lib,
                                  !.retry = Retries("load_library", lib_path, <<>>)]
        /\ UNCHANGED <<memVars, threads, envVars, regVars>>

DoGetFunction(lib_path, func_name) ==
    \E G \in {GetFunction(BridgeState, present, exported, lib_path, func_name)} :
        /\ SetBridge(G.B)
        /\ last' = [NoCall EXCEPT !.op = "get_function", !.lib_path = lib_path,
                                  !.func_name = func_name, !.loads = G.loads,
                                  !.resolves = G.resolves, !.fn = G.fn,
                                  !.retry = Retries("get_function", lib_path,
                                                    func_name)]
        /\ UNCHANGED <<memVars, threads, envVars, regVars>>

DoCallCFunction(lib_path, func_name, args, return_type, arg_types) ==
    \E C \in {CallCFunction(BridgeState, present, exported, native_ret,
                              lib_path, func_name, args, return_type,
                              arg_types)} :
        /\ SetBridge(C.B)
        /\ last' = [NoCall EXCEPT !.op = "call_c_function",
                                  !.lib_path = lib_path, !.func_name = func_name,
                                  !.args = args, !.arg_types = arg_types,
                                  !.err = C.err, !.loads = C.loads,
                                  !.resolves = C.resolves, !.invokes = C.invokes,
                                  !.fn = C.fn, !.result = C.result,
                                  !.types = C.types, !.restype = C.restype,
                                  !.c_type = return_type, !.out = C.out]
        /\ UNCHANGED <<memVars, threads, envVars, regVars>>

\* the world outside: a library file appears or disappears
FileChange(file) ==
    /\ present' = IF file \in present THEN present \ {file}
                  ELSE present \cup {file}
    /\ UNCHANGED <<memVars, threads, bridgeVars, regVars, exported,
                   native_ret, last>>

\* the world outside: the foreign function returns another C string
RetChange(ret) ==
    /\ native_ret' = ret
    /\ UNCHANGED <<memVars, threads, bridgeVars, regVars, present, exported,
                   last>>

\* the world outside: a symbol appears or disappears (a library is swapped)
SymbolChange(sym) ==
    /\ exported' = IF sym \in exported THEN exported \ {sym}
                   ELSE exported \cup {sym}
    /\ UNCHANGED <<memVars, threads, bridgeVars, regVars, present,
                   native_ret, last>>

(***************************************************************************)
(* load_library entered by several threads of one interpreter.  The method *)
(* takes no lock, so a thread switch can fall between any two of its       *)
(* statements: the membership test of line 21, the native load of line 25  *)
(* and the store of line 26 are separate steps.                            *)
(***************************************************************************)
Threads == 1..MaxThreads

Idle == [pc |-> "idle", path |-> <<>>, lib |-> NoLib]

\* a thread enters load_library(lib_path)
ThreadCall(t, lib_path) ==
    /\ threads[t].pc = "idle"
    /\ threads' = [threads EXCEPT ![t] = [pc |-> "check", path |-> lib_path,
                                          lib |-> NoLib]]
    /\ UNCHANGED <<memVars, bridgeVars, envVars, regVars, last>>

\* lines 21-22: if lib_path in self.loaded_libs: return the cached object
ThreadCheck(t) ==
    /\ threads[t].pc = "check"
    /\ threads' = [threads EXCEPT ![t] =
                       IF threads[t].path \in DOMAIN loaded_libs
                       THEN [pc |-> "done", path |-> threads[t].path,
                             lib |-> loaded_libs[threads[t].path]]
                       ELSE [pc |-> "load", path |-> threads[t].path,
                             lib |-> NoLib]]
    /\ UNCHANGED <<memVars, bridgeVars, envVars, regVars, last>>

\* line 25: lib = ctypes.CDLL(lib_path); OSError is caught and None returned
ThreadLoad(t) ==
    /\ threads[t].pc = "load"
    /\ \E lib \in {NativeLoad(BridgeState, present, threads[t].path)} :
          /\ created' = created \cup ({lib} \ {NoLib})
          /\ threads' = [threads EXCEPT ![t] =
                             [@ EXCEPT !.pc = IF LoadStores(lib) THEN "store"
                                              ELSE "done",
                                       !.lib = lib]]
    /\ UNCHANGED <<memVars, loaded_libs, function_cache, fn_attrs, envVars,
                   regVars, last>>

\* lines 26-27: self.loaded_libs[lib_path] = lib; return lib
ThreadStore(t) ==
    /\ threads[t].pc = "store"
    /\ loaded_libs' = Put(loaded_libs, threads[t].path, threads[t].lib)
    /\ threads' = [threads EXCEPT ![t] = [@ EXCEPT !.pc = "done"]]
    /\ UNCHANGED <<memVars, function_cache, fn_attrs, created, envVars,
                   regVars, last>>

(***************************************************************************)
(* OperationDispatcher (op_dispatcher.py).                                 *)
(***************************************************************************)
\* a dispatcher whose default backend is the auto policy
default_backend_Auto == "auto"

\* self.default_backend
default_backend == "python"

\* the host callables: op_add(a, b) is a + b, op_eq(a, b) is a == b,
\* op_div(a, b) raises ZeroDivisionError when b == 0 and is a / b otherwise;
\* a call with other than two arguments, int + text, or a division with a
\* text operand raises TypeError
HostCall(impl, args) ==
    IF Len(args) # 2 THEN "TypeError"
    ELSE IF impl = "op_add" /\ IsText(args[1]) # IsText(args[2]) THEN "TypeError"
    ELSE IF impl = "op_div" /\ args[2] = "zero" THEN "ZeroDivisionError"
    ELSE IF impl = "op_div" /\ (IsText(args[1]) \/ IsText(args[2]))
    THEN "TypeError"
    ELSE "none"

\* a _dispatch_py that catches what the callable raises and reports the
\* operation as missing
DispatchPyRaises_NotFound(e) == IF e = "none" THEN "none" ELSE "OperationNotFound"

\* what _dispatch_py raises when the callable raises e: line 67 calls it
\* outside any try block, and dispatch has none either
DispatchPyRaises(e) == e

RegistryInit ==
    /\ c_ops = EmptyMap
    /\ py_ops = EmptyMap

\* a registration that rebuilds the table around the new entry
RegisterCTable_Reset(table, op_name, desc) == Put(EmptyMap, op_name, desc)

\* a registration that keeps the first entry of a name
RegisterCTable_KeepFirst(table, op_name, desc) ==
    IF op_name \in DOMAIN table THEN table ELSE Put(table, op_name, desc)

\* the c_ops table after register_c_operation
RegisterCTable(table, op_name, desc) == Put(table, op_name, desc)

\* the py_ops table after register_py_operation
RegisterPyTable(table, op_name, func) == Put(table, op_name, func)

\* register_c_operation(op_name, lib_path, func_name, return_type, arg_types)
RegisterC(op_name, desc) ==
    /\ c_ops' = RegisterCTable(c_ops, op_name, desc)
    /\ last' = [NoCall EXCEPT !.op = "register_c", !.name = op_name,
                              !.desc = desc,
                              !.replaced = (op_name \in DOMAIN c_ops /\
                                            c_ops[op_name] # desc)]
    /\ UNCHANGED <<memVars, threads, bridgeVars, envVars, py_ops>>

\* register_py_operation(op_name, func)
RegisterPy(op_name, func) ==
    /\ py_ops' = RegisterPyTable(py_ops, op_name, func)
    /\ last' = [NoCall EXCEPT !.op = "register_py", !.name = op_name,
                              !.host = func,
                              !.replaced = (op_name \in DOMAIN py_ops /\
                                            py_ops[op_name] # func)]
    /\ UNCHANGED <<memVars, threads, bridgeVars, envVars, c_ops>>

\* a dispatch whose auto policy asks the Python table first
Route_HostFirst(op_name, backend) ==
    LET b == IF backend = "None" THEN default_backend ELSE backend
    IN  IF b = "python" \/ (b = "auto" /\ op_name \in DOMAIN py_ops)
        THEN "python"
        ELSE IF b = "c" \/ (b = "auto" /\ op_name \in DOMAIN c_ops) THEN "c"
             ELSE "none"

\* a dispatch whose explicit hint falls back to the other table
Route_FallsBack(op_name, backend) ==
    LET b == IF backend = "None" THEN default_backend ELSE backend
        inC == op_name \in DOMAIN c_ops
        inPy == op_name \in DOMAIN py_ops
    IN  CASE b = "c" -> IF inC \/ ~inPy THEN "c" ELSE "python"
          [] b = "python" -> IF inPy \/ ~inC THEN "python" ELSE "c"
          [] b = "auto" -> IF inC THEN "c" ELSE IF inPy THEN "python" ELSE "none"
          [] OTHER -> "none"

\* the branch dispatch takes (lines 37-44): backend = backend or default
Route(op_name, backend) ==
    LET b == IF backend = "None" THEN default_backend ELSE backend
    IN  IF b = "c" \/ (b = "auto" /\ op_name \in DOMAIN c_ops) THEN "c"
        ELSE IF b = "python" \/ (b = "auto" /\ op_name \in DOMAIN py_ops)
             THEN "python"
             ELSE "none"

\* _dispatch_c: whether the C implementation is called
DispatchCRuns(op_name) == op_name \in DOMAIN c_ops

\* _dispatch_py: whether the Python implementation is called
DispatchPyRuns(op_name) == op_name \in DOMAIN py_ops

\* dispatch(op_name, *args, backend=backend)
Dispatch(op_name, args, backend) ==
    LET route == Route(op_name, backend)
        call == [NoCall EXCEPT !.op = "dispatch", !.name = op_name,
                               !.hint = backend, !.args = args]
    IN  /\ UNCHANGED <<memVars, threads, envVars, regVars>>
        /\ IF route = "c" /\ DispatchCRuns(op_name)
           THEN LET d == c_ops[op_name]
                IN  \E C \in {CallCFunction(BridgeState, present, exported,
                                          native_ret, d.lib, d.func, args,
                                          d.return_type, d.arg_types)} :
                    /\ SetBridge(C.B)
                    /\ last' = [call EXCEPT !.ran = "c", !.desc = d,
                                            !.lib_path = d.lib,
                                            !.func_name = d.func,
                                            !.arg_types = d.arg_types,
                                            !.err = C.err, !.loads = C.loads,
                                            !.resolves = C.resolves,
                                            !.invokes = C.invokes,
                                            !.fn = C.fn, !.result = C.result,
                                            !.types = C.types,
                                            !.restype = C.restype,
                                            !.c_type = d.return_type,
                                            !.out = C.out]
           ELSE IF route = "python" /\ DispatchPyRuns(op_name)
           THEN /\ UNCHANGED bridgeVars
                /\ last' = [call EXCEPT !.ran = "python",
                                        !.host = py_ops[op_name],
                                        !.host_calls = 1,
                                        !.err = DispatchPyRaises(
                                                    HostCall(py_ops[op_name], args)),
                                        !.result =
                                            IF HostCall(py_ops[op_name], args) = "none"
                                            THEN "host" ELSE "none"]
           ELSE /\ UNCHANGED bridgeVars
                /\ last' = [call EXCEPT !.err = "OperationNotFound"]

\* has_operation(op_name, backend): lines 71-76
HasOperation(op_name, backend) ==
    IF backend = "c" THEN op_name \in DOMAIN c_ops
    ELSE IF backend = "python" THEN op_name \in DOMAIN py_ops
    ELSE op_name \in DOMAIN c_ops \/ op_name \in DOMAIN py_ops

Has(op_name, backend) ==
    /\ last' = [NoCall EXCEPT !.op = "has_operation", !.name = op_name,
                              !.hint = backend,
                              !.result = IF HasOperation(op_name, backend)
                                         THEN "True" ELSE "False"]
    /\ UNCHANGED <<memVars, threads, bridgeVars, envVars, regVars>>

(***************************************************************************)
(* Type-name mappings besides PyToCBridge._map_type.                       *)
(***************************************************************************)
\* FFIHelper.map_type(type_name)
FFIMapType(type_name) ==
    CASE type_name = "void" -> "None"
      [] type_name = "int" -> "c_int"
      [] type_name = "long" -> "c_long"
      [] type_name = "float" -> "c_float"
      [] type_name = "double" -> "c_double"
      [] type_name = "char" -> "c_char"
      [] type_name = "char*" -> "c_char_p"
      [] type_name = "wchar*" -> "c_wchar_p"
      [] type_name = "void*" -> "c_void_p"
      [] type_name = "bool" -> "c_bool"
      [] type_name = "int8" -> "c_int8"
      [] type_name = "int16" -> "c_int16"
      [] type_name = "int32" -> "c_int32"
      [] type_name = "int64" -> "c_int64"
      [] type_name = "uint8" -> "c_uint8"
      [] type_name = "uint16" -> "c_uint16"
      [] type_name = "uint32" -> "c_uint32"
      [] type_name = "uint64" -> "c_uint64"
      [] type_name = "size_t" -> "c_size_t"
      [] OTHER -> "c_void_p"

\* CWrapperGenerator._get_ctype(type_name)
GetCType(type_name) ==
    CASE type_name = "void" -> "None"
      [] type_name = "int" -> "c_int"
      [] type_name = "long" -> "c_long"
      [] type_name = "float" -> "c_float"
      [] type_name = "double" -> "c_double"
      [] type_name = "char*" -> "c_char_p"
      [] type_name = "void*" -> "c_void_p"
      [] type_name = "bool" -> "c_bool"
      [] OTHER -> "c_void_p"

\* one lookup in one of the three mappings
DoMapType(mapping, type_name) ==
    /\ last' = [NoCall EXCEPT !.op = mapping, !.c_type = type_name,
                              !.kind = CASE mapping = "_map_type" -> MapType(type_name)
                                         [] mapping = "map_type" -> FFIMapType(type_name)
                                         [] OTHER -> GetCType(type_name)]
    /\ UNCHANGED <<memVars, threads, bridgeVars, envVars, regVars>>

(***************************************************************************)
(* TypeConverter (type_converter.py) and the ctypes / builtin constructors *)
(* it calls.  An operator returns the value, or the exception raised.      *)
(***************************************************************************)
Ok(value) == [err |-> "none", value |-> value]

Raise(e) == [err |-> e, value |-> NoValue]

\* ctypes.c_void_p(0)
NullPointer == [t |-> "c_void_p", v |-> <<0>>]

\* the payload of a c_char_p built from an integer address, not from bytes
Address(n) == <<-1, n>>

\* the names getattr(ctypes, c_type, None) finds a class for
CtypesClasses == IntTypes \cup {"c_float", "c_double", "c_char_p", "c_void_p",
                                "c_bool"}

OneByteClasses == {"c_int8", "c_uint8", "c_bool"}

\* the number a ctypes integer class keeps of n: no overflow check, the low
\* bits only.  The wider classes hold every number of the model unchanged.
Wrap(c_class, n) ==
    CASE c_class = "c_uint8" -> n % 256
      [] c_class = "c_int8" -> ((n + 128) % 256) - 128
      [] OTHER -> n

\* bool(value)
Truthy(value) ==
    CASE value.t = "NoneType" -> FALSE
      [] value.t \in {"str", "bytes", "list"} -> value.v # <<>>
      [] value.t = "c_char_p" -> value.v # Address(0)
      [] OTHER -> value.v # <<0>>

\* c_class(value)
Construct(c_class, value) ==
    CASE c_class \in IntTypes ->
            IF value.t \in {"int", "bool"}
            THEN Ok([t |-> c_class, v |-> <<Wrap(c_class, value.v[1])>>])
            ELSE Raise("TypeError")
      [] c_class \in {"c_float", "c_double"} ->
            IF value.t \in {"int", "bool", "float"}
            THEN Ok([t |-> c_class, v |-> value.v])
            ELSE Raise("TypeError")
      [] c_class = "c_bool" ->
            Ok([t |-> "c_bool", v |-> <<IF Truthy(value) THEN 1 ELSE 0>>])
      [] c_class = "c_char_p" ->
            IF value.t = "bytes" THEN Ok([t |-> "c_char_p", v |-> value.v])
            ELSE IF value.t \in {"int", "bool"}
            THEN Ok([t |-> "c_char_p", v |-> Address(value.v[1])])
            ELSE Raise("TypeError")
      [] c_class = "c_void_p" ->
            IF value.t \in {"int", "bool"}
            THEN Ok([t |-> "c_void_p", v |-> value.v])
            ELSE Raise("TypeError")
      [] OTHER -> Raise("TypeError")

\* the number a decimal literal spells (text or bytes, digits only)
RECURSIVE DigitsValue(_, _, _)
DigitsValue(ds, i, acc) ==
    IF i > Len(ds) THEN acc ELSE DigitsValue(ds, i + 1, 10 * acc + (ds[i] - 48))

IsLiteral(ds) == ds # <<>> /\ \A i \in DOMAIN ds : ds[i] \in 48..57

\* the bytes int() and float() read from a ctypes object through the buffer
\* protocol.  An object wider than one byte holds a zero byte or a 0xFF byte
\* for every number of the model, which is no literal.
Buffer(value) ==
    IF value.t \in OneByteClasses THEN <<value.v[1] % 256>> ELSE <<0>>

\* int(value) and float(value); a float of the model has no fraction
PyNumber(py_type, value) ==
    CASE value.t \in {"int", "bool", "float"} -> Ok([t |-> py_type, v |-> value.v])
      [] value.t \in {"str", "bytes"} ->
            IF IsLiteral(value.v)
            THEN Ok([t |-> py_type, v |-> <<DigitsValue(value.v, 1, 0)>>])
            ELSE Raise("ValueError")
      [] value.t \in CtypesClasses ->
            IF IsLiteral(Buffer(value))
            THEN Ok([t |-> py_type, v |-> <<DigitsValue(Buffer(value), 1, 0)>>])
            ELSE Raise("ValueError")
      [] OTHER -> Raise("TypeError")

\* py_type(value) for the classes C_TO_PY_MAP names.  str(value) of a value
\* that is no str is its printed form, written -1 followed by the payload.
PyCall(py_type, value) ==
    CASE py_type \in {"int", "float"} -> PyNumber(py_type, value)
      [] py_type = "bool" -> Ok([t |-> "bool", v |-> <<IF Truthy(value) THEN 1 ELSE 0>>])
      [] OTHER -> IF value.t = "str" THEN Ok(value)
                  ELSE Ok([t |-> "str", v |-> <<-1>> \o value.v])

\* a classification by isinstance, integers asked first (a bool is an int)
TypeOf_IntFirst(value) == IF value.t = "bool" THEN "int" ELSE value.t

\* type(value): the exact class, the key of the lookups below
TypeOf(value) == value.t

\* TypeConverter.PY_TO_C_MAP
PY_TO_C_MAP ==
    [py_type \in {"int", "float", "str", "bool", "bytes"} |->
        CASE py_type = "int" -> "c_int64"
          [] py_type = "float" -> "c_double"
          [] py_type = "bool" -> "c_bool"
          [] OTHER -> "c_char_p"]

\* TypeConverter.C_TO_PY_MAP
C_TO_PY_MAP ==
    [c_type \in {"c_int", "c_int32", "c_int64", "c_long", "c_float", "c_double",
                 "c_char_p", "c_bool"} |->
        CASE c_type \in {"c_float", "c_double"} -> "float"
          [] c_type = "c_char_p" -> "str"
          [] c_type = "c_bool" -> "bool"
          [] OTHER -> "int"]

\* TypeConverter.py_to_c(value, c_type); c_type "None" is the omitted one
TcPyToC(value, c_type) ==
    IF value = NoneValue THEN Ok(NullPointer)
    ELSE IF TypeOf(value) = "str"
    THEN LET e == Utf8Encode(value.v)
         IN  IF e.err # "none" THEN Raise(e.err)
             ELSE Ok([t |-> "bytes", v |-> e.bytes])
    ELSE IF c_type = "None"
    THEN IF TypeOf(value) \in DOMAIN PY_TO_C_MAP
         THEN Construct(PY_TO_C_MAP[TypeOf(value)], value)
         ELSE Ok(value)
    ELSE IF c_type \in CtypesClasses THEN Construct(c_type, value)
    ELSE Ok(value)

\* the decoding mode of TypeConverter.c_to_py
TcDecodeErrors == "replace"

\* TypeConverter.c_to_py(value, c_type)
TcCToPy(value, c_type) ==
    IF value = NoneValue THEN Ok(NoneValue)
    ELSE IF c_type \in {"c_char_p", "char*"} /\ value.t = "bytes"
    THEN LET d == Utf8Decode(value.v, TcDecodeErrors)
         IN  IF d.err # "none" THEN Raise(d.err)
             ELSE Ok([t |-> "str", v |-> d.text])
    ELSE IF c_type \in DOMAIN C_TO_PY_MAP THEN PyCall(C_TO_PY_MAP[c_type], value)
    ELSE Ok(value)

\* TypeConverter.infer_c_type(value)
InferCType(value) ==
    CASE TypeOf(value) = "int" -> "c_int64"
      [] TypeOf(value) = "float" -> "c_double"
      [] TypeOf(value) = "str" -> "c_char_p"
      [] TypeOf(value) = "bool" -> "c_bool"
      [] TypeOf(value) = "bytes" -> "c_char_p"
      [] OTHER -> "c_void_p"

\* TypeConverter.py_to_rubolt(value): the tag of the (value, tag) pair
PyToRubolt(value) ==
    IF value = NoneValue THEN "null"
    ELSE IF TypeOf(value) \in {"int", "float", "str", "bool", "list", "dict"}
    THEN TypeOf(value)
    ELSE "object"

\* FFIHelper.c_to_string(c_str)
FFICToString(c_str) ==
    IF c_str.t = "bytes"
    THEN LET d == Utf8Decode(c_str.v, "strict")
         IN  IF d.err # "none" THEN Raise(d.err)
             ELSE Ok([t |-> "str", v |-> d.text])
    ELSE PyCall("str", c_str)

\* the self-test of type_converter.py: a value converted to C and back under
\* one declared type, the inferred one when none is given
RoundTrip(value, c_type) ==
    LET c_val == TcPyToC(value, c_type)
        declared == IF c_type = "None" THEN InferCType(value) ELSE c_type
    IN  IF c_val.err # "none" THEN c_val ELSE TcCToPy(c_val.value, declared)

\* the record of one conversion: its inputs and its outcome R
Converted(op, value, c_type, R) ==
    [NoCall EXCEPT !.op = op, !.value = value, !.c_type = c_type,
                   !.err = R.err, !.out = R.value]

DoPyToC(value, c_type) ==
    /\ \E R \in {TcPyToC(value, c_type)} :
          last' = Converted("py_to_c", value, c_type, R)
    /\ UNCHANGED <<memVars, threads, bridgeVars, envVars, regVars>>

DoCToPy(value, c_type) ==
    /\ \E R \in {TcCToPy(value, c_type)} :
          last' = Converted("c_to_py", value, c_type, R)
    /\ UNCHANGED <<memVars, threads, bridgeVars, envVars, regVars>>

DoRoundTrip(value, c_type) ==
    /\ \E R \in {RoundTrip(value, c_type)} :
          last' = Converted("round_trip", value, c_type, R)
    /\ UNCHANGED <<memVars, threads, bridgeVars, envVars, regVars>>

DoCToString(c_str) ==
    /\ \E R \in {FFICToString(c_str)} :
          last' = Converted("c_to_string", c_str, "", R)
    /\ UNCHANGED <<memVars, threads, bridgeVars, envVars, regVars>>

DoInferCType(value) ==
    /\ last' = [NoCall EXCEPT !.op = "infer_c_type", !.value = value,
                              !.kind = InferCType(value)]
    /\ UNCHANGED <<memVars, threads, bridgeVars, envVars, regVars>>

DoPyToRubolt(value) ==
    /\ last' = [NoCall EXCEPT !.op = "py_to_rubolt", !.value = value,
                              !.out = value, !.kind = PyToRubolt(value)]
    /\ UNCHANGED <<memVars, threads, bridgeVars, envVars, regVars>>

(***************************************************************************)
(* The inputs the specifications draw from.                                *)
(***************************************************************************)
LibA == <<"/lib", "a">>
LibADot == <<"/lib", ".", "a">>
SymF == <<"f">>
SymG == <<"g">>

Files == {LibA}

\* a file whose name holds the separator, and a symbol name that holds it:
\* /lib/a::b with f, and /lib/a with b::f
LibAB == <<"/lib", "a", Sep, "b">>
SymBF == <<"b", Sep, "f">>
KeyFiles == {LibA, LibAB}
KeySyms == {SymF, SymBF}
Paths == {LibA, LibADot}
Syms == {SymF, SymG}
SwapSyms == {SymF}
ArgValues == {"int", "str", "badstr"}
ArgLists == UNION {[1..n -> ArgValues] : n \in 0..MaxArgs}
ArgTypeLists == {<<>>, <<"int">>, <<"int", "string">>}
ReturnTypes == {"int"}

OpNames == {"add", "mul"}
Backends == {"None", "c", "python", "auto"}
HostImpls == {"op_add", "op_eq"}
Descs == {[lib |-> LibA, func |-> SymF, return_type |-> "int",
           arg_types |-> <<"int", "int">>],
          [lib |-> LibA, func |-> SymF, return_type |-> "int",
           arg_types |-> <<>>]}
DispatchArgs == {<<"int", "int">>, <<"int", "str">>, <<"int">>}
RegHostImpls == {"op_add", "op_div"}
RegArgs == {<<"int", "int">>, <<"int", "zero">>, <<"int">>}

\* the closed vocabulary of type names, and names outside it
Vocabulary == {"void", "int", "long", "float", "double", "char", "char*",
               "string", "void*", "ptr", "bool", "int8", "int16", "int32",
               "int64", "uint8", "uint16", "uint32", "uint64", "size_t"}
TypeNames == Vocabulary \cup {"struct*", "unsigned", "wchar*"}
Mappings == {"_map_type", "map_type", "_get_ctype"}

\* bytes: "a", the two bytes of e-acute, and 0xFF, which no UTF-8 text holds
Bytes == {97, 195, 169, 255}
ByteStrings == UNION {[1..n -> Bytes] : n \in 0..MaxStr}

\* characters: "a", e-acute, and a lone surrogate
Chars == {97, 233, 55296}
Texts == UNION {[1..n -> Chars] : n \in 0..MaxStr}

IntValues == {-1, 0, 42, 200}
PyValues ==
    {NoneValue, [t |-> "list", v |-> <<>>], [t |-> "float", v |-> <<2>>]}
    \cup {[t |-> "bool", v |-> <<b>>] : b \in {0, 1}}
    \cup {[t |-> "int", v |-> <<n>>] : n \in IntValues}
    \cup {[t |-> "str", v |-> x] : x \in Texts}
    \cup {[t |-> "bytes", v |-> x] : x \in ByteStrings}
CValues ==
    {NoneValue, NullPointer, [t |-> "int", v |-> <<0>>],
     [t |-> "int", v |-> <<42>>], [t |-> "c_int64", v |-> <<42>>],
     [t |-> "c_int8", v |-> <<53>>], [t |-> "c_bool", v |-> <<1>>],
     [t |-> "c_double", v |-> <<2>>]}
    \cup {[t |-> "bytes", v |-> x] : x \in ByteStrings}
DeclaredTypes == {"c_int", "c_int8", "c_uint8", "c_int64", "c_double", "c_bool",
                  "c_char_p", "c_void_p", "char*", "int"}

\* what a foreign function returning char* may return
RetValues == {NullRet, <<>>, <<97>>, <<195, 169>>, <<195>>, <<255>>}
RetTypes == {"int", "void", "string", "char*"}

Init ==
    /\ MemInit
    /\ BridgeInit
    /\ RegistryInit
    /\ present = {}
    /\ exported = {}
    /\ native_ret = <<>>
    /\ threads = [t \in Threads |-> Idle]
    /\ last = NoCall

\* the memory manager alone
NextMem ==
    \/ Allocate
    \/ \E ptr \in Pointers : Free(ptr)
    \/ FreeAll

SpecMem == Init /\ [][NextMem]_vars

\* the bridge alone, called directly
NextBridge ==
    \/ \E p \in Paths : DoLoadLibrary(p)
    \/ \E p \in Paths, s \in Syms : DoGetFunction(p, s)
    \/ \E a \in ArgLists, r \in ReturnTypes, t \in ArgTypeLists :
          DoCallCFunction(LibA, SymF, a, r, t)
    \/ \E f \in Files : FileChange(f)
    \/ \E s \in SwapSyms : SymbolChange(s)

SpecBridge == Init /\ [][NextBridge]_vars

\* load_library called from several threads
NextThreads ==
    \/ \E t \in Threads, p \in Paths : ThreadCall(t, p)
    \/ \E t \in Threads : ThreadCheck(t)
    \/ \E t \in Threads : ThreadLoad(t)
    \/ \E t \in Threads : ThreadStore(t)
    \/ \E f \in Files : FileChange(f)

SpecThreads == Init /\ [][NextThreads]_vars

\* the dispatcher's registry, with no library on disk
NextReg ==
    \/ \E n \in OpNames, d \in Descs : RegisterC(n, d)
    \/ \E n \in OpNames, h \in RegHostImpls : RegisterPy(n, h)
    \/ \E n \in OpNames, a \in RegArgs, b \in Backends : Dispatch(n, a, b)
    \/ \E n \in OpNames, b \in Backends : Has(n, b)

SpecReg == Init /\ [][NextReg]_vars

\* the converters and the type-name mappings: each is a pure function of its
\* arguments, so a behaviour is one call
FirstCall == last = NoCall

NextConv ==
    \/ \E v \in PyValues, c \in DeclaredTypes \cup {"None"} :
          FirstCall /\ DoPyToC(v, c)
    \/ \E v \in CValues, c \in DeclaredTypes : FirstCall /\ DoCToPy(v, c)
    \/ \E v \in PyValues, c \in DeclaredTypes \cup {"None"} :
          FirstCall /\ DoRoundTrip(v, c)
    \/ \E v \in PyValues : FirstCall /\ DoInferCType(v)
    \/ \E v \in PyValues : FirstCall /\ DoPyToRubolt(v)
    \/ \E m \in Mappings, n \in TypeNames : FirstCall /\ DoMapType(m, n)

SpecConv == Init /\ [][NextConv]_vars

\* every path that decodes a C string: the return value of a native call,
\* c_to_py and c_to_string
NextRet ==
    \/ \E r \in RetTypes : DoCallCFunction(LibA, SymF, <<>>, r, <<>>)
    \/ \E x \in RetValues : RetChange(x)
    \/ \E f \in Files : FileChange(f)
    \/ \E y \in SwapSyms : SymbolChange(y)
    \/ \E x \in RetValues \ {NullRet}, c \in {"c_char_p", "char*"} :
          DoCToPy([t |-> "bytes", v |-> x], c)
    \/ \E x \in RetValues \ {NullRet} : DoCToString([t |-> "bytes", v |-> x])

SpecRet == Init /\ [][NextRet]_vars

\* get_function over paths and symbol names that hold the separator
NextKeys ==
    \/ \E p \in KeyFiles, y \in KeySyms : DoGetFunction(p, y)
    \/ \E f \in KeyFiles : FileChange(f)
    \/ \E y \in KeySyms : SymbolChange(y)

SpecKeys == Init /\ [][NextKeys]_vars

\* the dispatcher over the bridge
Next ==
    \/ \E n \in OpNames, d \in Descs : RegisterC(n, d)
    \/ \E n \in OpNames, h \in HostImpls : RegisterPy(n, h)
    \/ \E n \in OpNames, a \in DispatchArgs, b \in Backends : Dispatch(n, a, b)
    \/ \E d \in Descs, a \in DispatchArgs :
          DoCallCFunction(d.lib, d.func, a, d.return_type, d.arg_types)
    \/ \E f \in Files : FileChange(f)
    \/ \E s \in SwapSyms : SymbolChange(s)

Spec == Init /\ [][Next]_vars

(***************************************************************************)
(* Properties.                                                             *)
(***************************************************************************)
Count(s, x) == Cardinality({i \in DOMAIN s : s[i] = x})

IsDispatch == last.op = "dispatch"

\* C1: dispatch with hint auto executes the C implementation when the name
\* is in c_ops (and then calls no Python implementation), else the Python
\* implementation when the name is in py_ops, else raises operation-not-found
C1_AutoPrefersNative ==
    (IsDispatch /\ last.hint = "auto") =>
        IF last.name \in DOMAIN c_ops
        THEN /\ last.ran = "c"
             /\ last.desc = c_ops[last.name]
             /\ last.host_calls = 0
             /\ last.err # "OperationNotFound"
        ELSE IF last.name \in DOMAIN py_ops
        THEN /\ last.ran = "python"
             /\ last.host = py_ops[last.name]
             /\ last.host_calls = 1
             /\ last.invokes = 0
             /\ last.err # "OperationNotFound"
        ELSE /\ last.ran = "none"
             /\ last.err = "OperationNotFound"
             /\ last.host_calls = 0
             /\ last.invokes = 0

\* an auto dispatch of a name registered for both backends entered the
\* native function
C1_Witness ==
    /\ IsDispatch
    /\ last.hint = "auto"
    /\ last.name \in DOMAIN c_ops
    /\ last.name \in DOMAIN py_ops
    /\ last.ran = "c"
    /\ last.invokes = 1

\* C2: dispatch with hint c (python) executes the C (Python) implementation
\* only, and only when the name is in c_ops (py_ops); otherwise it raises
\* operation-not-found and executes nothing, whatever the other table holds
C2_ExplicitHintIsolated ==
    /\ (IsDispatch /\ last.hint = "c") =>
          /\ last.host_calls = 0
          /\ IF last.name \in DOMAIN c_ops
             THEN last.ran = "c" /\ last.desc = c_ops[last.name]
                  /\ last.err # "OperationNotFound"
             ELSE last.ran = "none" /\ last.err = "OperationNotFound"
                  /\ last.invokes = 0 /\ last.loads = 0 /\ last.resolves = 0
    /\ (IsDispatch /\ last.hint = "python") =>
          /\ last.invokes = 0 /\ last.loads = 0 /\ last.resolves = 0
          /\ IF last.name \in DOMAIN py_ops
             THEN last.ran = "python" /\ last.host = py_ops[last.name]
                  /\ last.host_calls = 1 /\ last.err # "OperationNotFound"
             ELSE last.ran = "none" /\ last.err = "OperationNotFound"
                  /\ last.host_calls = 0

\* a dispatch with hint python of a name registered for C only failed
C2_Witness ==
    /\ IsDispatch
    /\ last.hint = "python"
    /\ last.name \in DOMAIN c_ops
    /\ last.name \notin DOMAIN py_ops
    /\ last.err = "OperationNotFound"

C4_OnlySuccessesCached ==
    /\ \A p \in DOMAIN loaded_libs : loaded_libs[p] # NoLib
    /\ \A k \in DOMAIN function_cache : function_cache[k] # NoFn
    /\ (last.op = "load_library" /\ last.lib = NoLib) =>
          last.lib_path \notin DOMAIN loaded_libs
    /\ (last.op = "get_function" /\ last.fn = NoFn) =>
          CacheKey(last.lib_path, last.func_name) \notin DOMAIN function_cache
    /\ (last.op = "get_function" /\ last.fn = NoFn /\ last.resolves = 0) =>
          last.lib_path \notin DOMAIN loaded_libs
    /\ (last.op = "load_library" /\ last.retry) => last.loads = 1
    /\ (last.op = "get_function" /\ last.retry) =>
          last.loads + last.resolves >= 1

\* a resolution that failed was repeated and succeeded, natively
C4_Witness ==
    /\ last.op = "get_function"
    /\ last.retry
    /\ last.fn # NoFn
    /\ last.resolves = 1

IsCall == last.op = "call_c_function"

\* C5 as stated: a call whose argument count differs from the number of
\* declared types raises an arity error before any load, resolution,
\* conversion or invocation
C5_ArityCheckedFirst ==
    (IsCall /\ Len(last.args) # Len(last.arg_types)) =>
        /\ last.err = "ArityError"
        /\ last.loads = 0
        /\ last.resolves = 0
        /\ last.invokes = 0

\* whether a value converts to a declared type: the bridge's own conversion
\* and then the conversion to the ctypes type of the declared name
Compatible(value, type_name) ==
    /\ PyToC(value, type_name) # "raise"
    /\ FromParamOk(MapType(type_name), PyToC(value, type_name))

\* C6: a call with an argument that does not convert to its declared type
\* fails, and the native function is not entered
C6_FailClosed ==
    (IsCall /\ \E i \in DOMAIN last.args :
                   /\ i <= Len(last.arg_types)
                   /\ ~Compatible(last.args[i], last.arg_types[i])) =>
        /\ last.err # "none"
        /\ last.invokes = 0
        /\ last.result = "none"

\* the function was resolved, argument 1 converts and argument 2 does not
C6_Witness ==
    /\ IsCall
    /\ last.fn # NoFn
    /\ last.arg_types = <<"int", "string">>
    /\ last.args = <<"int", "int">>
    /\ last.invokes = 0

\* C7: a call or a dispatch loads, resolves and enters the native function
\* at most once each; a call that returns normally through the C path has
\* entered it exactly once, and a Python dispatch never enters it
C7_AtMostOneInvocation ==
    (IsCall \/ IsDispatch) =>
        /\ last.invokes <= 1
        /\ last.loads <= 1
        /\ last.resolves <= 1
        /\ last.host_calls <= 1
        /\ (last.err = "none" /\ (IsCall \/ last.ran = "c")) => last.invokes = 1
        /\ last.ran = "python" => last.invokes = 0 /\ last.host_calls = 1

\* a C dispatch that loaded, resolved and entered the function, once each
C7_Witness ==
    /\ IsDispatch
    /\ last.ran = "c"
    /\ last.err = "none"
    /\ last.loads = 1
    /\ last.resolves = 1
    /\ last.invokes = 1

\* C8 as stated: free of a pointer that is not tracked raises a double-free
\* error and hands nothing to the native free
C8_UntrackedFreeRejected ==
    (mlast.op = "free" /\ mlast.ptr \notin Range(mlast.before)) =>
        /\ mlast.err = "DoubleFreeError"
        /\ mlast.freed = <<>>

\* C9: free_all hands every tracked pointer to the native free exactly once
\* and nothing else, leaves the list empty and raises nothing; with nothing
\* tracked it frees nothing
C9_FreeAllReleasesEachOnce ==
    (mlast.op = "free_all") =>
        /\ allocations = <<>>
        /\ mlast.err = "none"
        /\ Range(mlast.freed) = Range(mlast.before)
        /\ \A p \in Range(mlast.before) : Count(mlast.freed, p) = 1
        /\ Len(mlast.freed) = Len(mlast.before)

\* free_all released two tracked pointers after another one had been freed
C9_Witness ==
    /\ mlast.op = "free_all"
    /\ Len(mlast.before) = 2
    /\ next_ptr > 3

\* C10: a registration sets the entry of its (name, backend) to the given
\* implementation whether or not one was there, raises nothing and leaves
\* every other entry of both tables as it was; a dispatch executes the entry
\* the table holds when it is called
C10_Step ==
    /\ last'.op = "register_c" =>
          /\ DOMAIN c_ops' = DOMAIN c_ops \cup {last'.name}
          /\ c_ops'[last'.name] = last'.desc
          /\ \A n \in DOMAIN c_ops \ {last'.name} : c_ops'[n] = c_ops[n]
          /\ py_ops' = py_ops
          /\ last'.err = "none"
    /\ last'.op = "register_py" =>
          /\ DOMAIN py_ops' = DOMAIN py_ops \cup {last'.name}
          /\ py_ops'[last'.name] = last'.host
          /\ \A n \in DOMAIN py_ops \ {last'.name} : py_ops'[n] = py_ops[n]
          /\ c_ops' = c_ops
          /\ last'.err = "none"
    /\ (last'.op = "dispatch" /\ last'.ran = "c") =>
          last'.desc = c_ops[last'.name]
    /\ (last'.op = "dispatch" /\ last'.ran = "python") =>
          last'.host = py_ops[last'.name]

C10_LastRegistrationWins == [][C10_Step]_vars

\* a C registration replaced a different one while the name's Python entry
\* stayed
C10_Witness ==
    /\ last.op = "register_c"
    /\ last.replaced
    /\ last.name \in DOMAIN py_ops
    /\ c_ops[last.name] = last.desc

\* what dispatch(op_name, ..., backend) would do with the registries as they
\* are: call a registered implementation, or fail with operation-not-found
WouldSelect(op_name, backend) ==
    \/ Route(op_name, backend) = "c" /\ DispatchCRuns(op_name)
    \/ Route(op_name, backend) = "python" /\ DispatchPyRuns(op_name)

\* C11: has(name, hint) answers true exactly when dispatch(name, args, hint)
\* would select a registered implementation, for the hints c, python, auto and
\* the omitted hint alike.
C11_HasMirrorsDispatch ==
    last.op = "has_operation" =>
        ((last.result = "True") <=> WouldSelect(last.name, last.hint))

\* C16: an exception raised by the host implementation itself (op_div with a
\* zero divisor) leaves dispatch as that same exception, after exactly one
\* host call and without any native load, resolution or invocation.
C16_HostErrorSurfaces ==
    (IsDispatch /\ last.ran = "python") =>
        /\ last.err = HostCall(last.host, last.args)
        /\ (last.host = "op_div" /\ Len(last.args) = 2 /\ last.args[2] = "zero")
              => last.err = "ZeroDivisionError"
        /\ last.host_calls = 1
        /\ last.loads = 0 /\ last.resolves = 0 /\ last.invokes = 0

C16_Witness ==
    /\ IsDispatch /\ last.ran = "python" /\ last.hint = "python"
    /\ last.host = "op_div" /\ last.args = <<"int", "zero">>
    /\ last.name \in DOMAIN c_ops
    /\ last.err = "ZeroDivisionError"

\* C19: a registry entry is created or replaced by a registration only, of the
\* registered name only; a registered name stays registered; dispatch and
\* has_operation leave both registries as they were.
C19_Step ==
    /\ DOMAIN c_ops \subseteq DOMAIN c_ops'
    /\ DOMAIN py_ops \subseteq DOMAIN py_ops'
    /\ c_ops' # c_ops =>
          /\ last'.op = "register_c" /\ py_ops' = py_ops
          /\ c_ops' = Put(c_ops, last'.name, last'.desc)
    /\ py_ops' # py_ops =>
          /\ last'.op = "register_py" /\ c_ops' = c_ops
          /\ py_ops' = Put(py_ops, last'.name, last'.host)
    /\ last'.op \in {"dispatch", "has_operation"} =>
          c_ops' = c_ops /\ py_ops' = py_ops

C19_RegistryFrame == [][C19_Step]_vars

C19_Witness ==
    /\ last.op \in {"dispatch", "has_operation"}
    /\ DOMAIN c_ops = OpNames
    /\ DOMAIN py_ops = OpNames

\* C20: every native invocation is made with the return type and the argument
\* types of the descriptor of that very call; argument types an earlier call
\* left on the cached function object do not govern it.
C20_OwnDescriptorGoverns ==
    (IsCall /\ last.invokes >= 1) =>
        /\ last.restype = MapType(last.c_type)
        /\ last.types = IF last.arg_types = <<>> THEN Unset
                        ELSE MapTypes(last.arg_types)

\* C17: under concurrent load_library calls the native load of a path happens
\* at most once, so that at most one handle of a path ever exists and every
\* caller that got a handle of that path got the same one.
C17_OneLoadPerPath ==
    /\ \A a \in created, b \in created : a.path = b.path => a = b
    /\ \A t \in Threads, u \in Threads :
          (/\ threads[t].pc = "done" /\ threads[u].pc = "done"
           /\ threads[t].path = threads[u].path
           /\ threads[t].lib # NoLib /\ threads[u].lib # NoLib)
          => threads[t].lib = threads[u].lib

\* C12: a type name outside the closed vocabulary maps to the generic pointer
\* type c_void_p in each of the three type-name mappings, the one that sets
\* restype and argtypes of a native call included.
C12_UnknownNamesArePointers ==
    (last.op \in Mappings /\ last.c_type \notin Vocabulary) =>
        last.kind = "c_void_p"

\* C13: decoding a C string never raises, whatever its bytes, in c_to_py, in
\* c_to_string and in the return conversion of a native call whose return
\* type is string or char*.
C13_DecodingNeverRaises ==
    /\ (last.op \in {"c_to_py", "c_to_string"} /\ last.value.t = "bytes") =>
          last.err = "none" /\ last.out.t = "str"
    /\ (IsCall /\ last.c_type \in {"string", "char*"} /\ last.invokes >= 1) =>
          last.err = "none"

\* a null native value: None, or the c_void_p(0) that py_to_c makes of None
IsNull(value) == value \in {NoneValue, NullPointer}

\* C14: c_to_py turns a null native value into None when the declared type is
\* a raw pointer or a C string, and only then.
C14_NullOnlyForPointers ==
    (last.op = "c_to_py" /\ IsNull(last.value)) =>
        ((last.err = "none" /\ last.out = NoneValue)
            <=> last.c_type \in {"c_void_p", "c_char_p", "char*"})

\* a value the declared type can hold
Representable(value, c_type) ==
    CASE c_type = "c_int8" -> value.t = "int" /\ value.v[1] \in -128..127
      [] c_type = "c_uint8" -> value.t = "int" /\ value.v[1] \in 0..255
      [] c_type \in {"c_int", "c_int64"} -> value.t = "int"
      [] c_type = "c_double" -> value.t = "float"
      [] c_type = "c_bool" -> value.t = "bool"
      [] c_type \in {"c_char_p", "char*"} ->
            value.t = "str" /\ \A i \in DOMAIN value.v : value.v[i] # 55296
      [] OTHER -> FALSE

\* C15: a value converted to its declared type and back is the value again,
\* for every declared primitive type and every value that type can hold.
C15_RoundTrip ==
    (last.op = "round_trip" /\ Representable(last.value, last.c_type)) =>
        last.err = "none" /\ last.out = last.value

\* C18: with no declared type a boolean is classified as a boolean, never as
\* an integer: py_to_c builds a c_bool, infer_c_type answers c_bool and
\* py_to_rubolt tags it bool.
C18_BoolIsNotInt ==
    last.value.t = "bool" =>
        /\ (last.op = "py_to_c" /\ last.c_type = "None") =>
              last.err = "none" /\ last.out.t = "c_bool" /\ last.out.v = last.value.v
        /\ last.op = "infer_c_type" => last.kind = "c_bool"
        /\ last.op = "py_to_rubolt" => last.kind = "bool" /\ last.out = last.value

C18_Witness ==
    /\ last.op = "infer_c_type"
    /\ last.value = [t |-> "bool", v |-> <<1>>]
    /\ last.kind = "c_bool"

\* C21: dispatch without a backend hint behaves as dispatch with the hint
\* python: it runs the Python implementation when the name has one, also when
\* a C implementation is registered too, and fails with operation-not-found
\* otherwise, without touching the native side.
C21_DefaultIsHost ==
    (IsDispatch /\ last.hint = "None") =>
        /\ last.loads = 0 /\ last.resolves = 0 /\ last.invokes = 0
        /\ last.name \in DOMAIN py_ops =>
              /\ last.ran = "python" /\ last.host = py_ops[last.name]
              /\ last.host_calls = 1
              /\ last.err = HostCall(py_ops[last.name], last.args)
        /\ last.name \notin DOMAIN py_ops =>
              /\ last.ran = "none" /\ last.host_calls = 0
              /\ last.err = "OperationNotFound"

C21_Witness ==
    /\ IsDispatch /\ last.hint = "None"
    /\ last.name \in DOMAIN c_ops /\ last.name \notin DOMAIN py_ops
    /\ c_ops[last.name].lib \in present /\ c_ops[last.name].func \in exported
    /\ last.err = "OperationNotFound"

\* the library object a function object was resolved from
LibOf(fn) == CHOOSE l \in created : l.id = fn.lib

\* C22: distinct (library path, symbol name) requests have distinct cache
\* entries, so get_function(lib, name) returns only a function resolved from
\* library lib under symbol name; the library of every cached function is in
\* the library cache.
C22_CacheEntriesDistinct ==
    /\ (last.op = "get_function" /\ last.fn # NoFn) =>
          last.fn.sym = last.func_name /\ LibOf(last.fn).path = last.lib_path
    /\ \A k \in DOMAIN function_cache :
          LibOf(function_cache[k]) \in Range(loaded_libs)

====
